---- MODULE Spec2Model ----
(***************************************************************************)
(* Model of the sprotty client core:                                       *)
(*   - DiagramServer (client/src/model-source/diagram-server.ts): the      *)
(*     forward-vs-local policy of handle and the acceptance rule of        *)
(*     messageReceived;                                                    *)
(*   - SelectCommand / SelectAllCommand (client/src/features/select/       *)
(*     select.ts): execute, undo and redo on a tree of elements.           *)
(* The two parts do not share state; SpecServer and SpecSelect explore     *)
(* them separately.                                                        *)
(***************************************************************************)
EXTENDS Integers, Sequences, FiniteSets, TLC

\* ------------------------------------------------------------------ bounds
MaxBounds == 2
MaxAlignments == 1
MaxSelected == 2
MaxDeselected == 1
MaxOps == 4
MaxRegistrations == 3

\* ------------------------------------------------------ values and helpers
\* An optional value (undefined / null, or a value) is a sequence of length
\* zero or one.
None == <<>>
Some(v) == <<v>>

\* All sequences over S of length at most n.
SeqsUpTo(S, n) == UNION {[1..k -> S] : k \in 0..n}

\* ------------------------------------------------------------ action kinds
ComputedBoundsAction_KIND == "computedBounds"
RequestBoundsCommand_KIND == "requestBounds"
SetModelCommand_KIND == "setModel"
UpdateModelCommand_KIND == "updateModel"
ServerStatusAction_KIND == "serverStatus"
ExportSvgAction_KIND == "export"
OpenAction_KIND == "open"
SelectCommand_KIND == "elementSelected"
SelectAllCommand_KIND == "allSelected"

Kinds ==
  {ComputedBoundsAction_KIND, RequestBoundsCommand_KIND, SetModelCommand_KIND,
   UpdateModelCommand_KIND, ServerStatusAction_KIND, ExportSvgAction_KIND,
   OpenAction_KIND, SelectCommand_KIND}

\* The kinds DiagramServer.initialize registers this model source for.
RegisteredKinds ==
  {ComputedBoundsAction_KIND, RequestBoundsCommand_KIND, OpenAction_KIND,
   ServerStatusAction_KIND}

\* ------------------------------------------------------------- model roots
\* The schema of one element: position, size and alignment are unset until
\* bounds or an alignment are applied.
NewElement == [position |-> None, size |-> None, alignment |-> None]

\* A root schema: its type tag, its id, and the elements reachable from it
\* (the root itself included), by id.
MkRoot(type, ids) ==
  [type |-> type, id |-> "ROOT", elems |-> [i \in ids \cup {"ROOT"} |-> NewElement]]

\* DiagramServer.currentRoot's initial value.
EmptyRoot == MkRoot("NONE", {})

\* The roots the actions of the model carry.
Roots == {MkRoot("graph", {"n1", "n2"}), MkRoot("tree", {"n1"})}

\* SModelIndex.add(root) followed by getById(id): the element with that id,
\* if any.
IndexHas(root, id) == id \in DOMAIN root.elems

\* ---------------------------------------------------------------- actions
BoundsValues ==
  {[x |-> 10, y |-> 20, width |-> 5, height |-> 5],
   [x |-> 0, y |-> 0, width |-> 1, height |-> 1]}
AlignmentValues == {[x |-> 3, y |-> 4]}

\* The entries of the bounds and alignments lists of the model: "n1" is in
\* both roots, "n2" only in the graph, neither in the initial root.
ElementAndBounds ==
  {[elementId |-> "n1", newBounds |-> b] : b \in BoundsValues}
  \cup {[elementId |-> "n2", newBounds |-> [x |-> 10, y |-> 20, width |-> 5, height |-> 5]]}
ElementAndAlignment == {[elementId |-> "n2", newAlignment |-> a] : a \in AlignmentValues}

\* An action: kind plus the fields the model source reads.  alignments is
\* optional; receivedFromServer is the out-of-band '__receivedFromServer'
\* property.
MkAction(kind, newRoot, bounds, alignments) ==
  [kind |-> kind, newRoot |-> newRoot, bounds |-> bounds,
   alignments |-> alignments, receivedFromServer |-> FALSE]

ModelActions ==
  {MkAction(k, r, <<>>, None) :
     k \in {SetModelCommand_KIND, UpdateModelCommand_KIND, RequestBoundsCommand_KIND},
     r \in {None} \cup {Some(x) : x \in Roots}}

ComputedBoundsActions ==
  {MkAction(ComputedBoundsAction_KIND, None, b, a) :
     b \in SeqsUpTo(ElementAndBounds, MaxBounds),
     a \in {None} \cup {Some(s) : s \in SeqsUpTo(ElementAndAlignment, MaxAlignments)}}

PlainActions ==
  {MkAction(k, None, <<>>, None) :
     k \in {ServerStatusAction_KIND, ExportSvgAction_KIND, OpenAction_KIND,
            SelectCommand_KIND}}

Actions == ModelActions \cup ComputedBoundsActions \cup PlainActions

UpdateModelAction(root) == MkAction(UpdateModelCommand_KIND, Some(root), <<>>, None)
SetModelAction(root) == MkAction(SetModelCommand_KIND, Some(root), <<>>, None)

\* --------------------------------------------------------------- payloads
\* DiagramServer.clientId (viewerOptions.baseDiv) and another client's id.
clientId == "sprotty"
otherClientId == "other"

\* What messageReceived is given: a string (JSON text, syntactically valid
\* or not) or a value.  t is the type of the value (for text: of the value
\* the text denotes).  An object has or lacks the own properties clientId
\* and action; a present property may hold undefined/null (None).
MkData(isString, syntaxOk, t, hasClientId, cid, hasAction, action) ==
  [isString |-> isString, syntaxOk |-> syntaxOk, t |-> t,
   hasClientId |-> hasClientId, clientId |-> cid,
   hasAction |-> hasAction, action |-> action]

ClientIdValues == {None, Some(""), Some(clientId), Some(otherClientId)}

SampleActions ==
  {MkAction(SetModelCommand_KIND, Some(MkRoot("graph", {"n1", "n2"})), <<>>, None),
   MkAction(OpenAction_KIND, None, <<>>, None)}

\* The actions the envelopes of the model carry.
ReceivedActions ==
  ModelActions \cup PlainActions
  \cup {a \in ComputedBoundsActions : Len(a.bounds) <= 1 /\ a.alignments = None}

\* Envelopes with both properties and a non-empty action, as values and (a
\* few) as JSON text.
Envelopes ==
  {MkData(FALSE, TRUE, "object", TRUE, c, TRUE, Some(a)) :
     c \in ClientIdValues, a \in ReceivedActions}
  \cup {MkData(TRUE, TRUE, "object", TRUE, c, TRUE, Some(a)) :
          c \in ClientIdValues, a \in SampleActions}

\* Payloads that are not envelopes.
NonEnvelopes ==
  {MkData(TRUE, FALSE, "undefined", FALSE, None, FALSE, None)}
  \cup {MkData(s, TRUE, t, FALSE, None, FALSE, None) :
          s \in BOOLEAN, t \in {"null", "number"}}
  \cup {MkData(FALSE, TRUE, "undefined", FALSE, None, FALSE, None)}
  \cup {MkData(s, TRUE, "object", FALSE, None, FALSE, None) : s \in BOOLEAN}
  \cup {MkData(s, TRUE, "object", FALSE, None, TRUE, Some(a)) :
          s \in BOOLEAN, a \in SampleActions}
  \cup {MkData(s, TRUE, "object", TRUE, Some(clientId), FALSE, None) : s \in BOOLEAN}
  \cup {MkData(s, TRUE, "object", TRUE, Some(clientId), TRUE, None) : s \in BOOLEAN}

Payloads == Envelopes \cup NonEnvelopes

\* ============================================================ DiagramServer
VARIABLES
  needsServerLayout,        \* viewerOptions.needsServerLayout
  currentRoot,              \* DiagramServer.currentRoot
  lastSubmittedModelType,   \* DiagramServer.lastSubmittedModelType
  calls,                    \* calls made by the last step, in order
  last                      \* the last step: operation, input, outcome

serverVars == <<needsServerLayout, currentRoot, lastSubmittedModelType, calls, last>>

\* The value of a field that was never assigned.
Undefined == "<undefined>"

\* Entries of the call log.
MkCall(call, root, action, cid, callback) ==
  [call |-> call, root |-> root, action |-> action, clientId |-> cid,
   callback |-> callback]
StoreCall(root) == MkCall("store", Some(root), None, "", "")
SendCall(cid, action) == MkCall("send", None, Some(action), cid, "")
DispatchCall(action, callback) == MkCall("dispatch", None, Some(action), "", callback)
HandleCall(action) == MkCall("handle", None, Some(action), "", "")
ErrorCall == MkCall("error", None, None, "", "")

\* The fields of the DiagramServer the operations below read and write.
DS == [currentRoot |-> currentRoot,
       lastSubmittedModelType |-> lastSubmittedModelType,
       calls |-> <<>>]

\* The value of an expression that was evaluated once: TheOne({f(x) : x \in {e}})
\* is f(e).
TheOne(S) == CHOOSE v \in S : TRUE

\* storeNewModel that takes the type of every stored root as the last
\* submitted type, also for requestBounds.
storeNewModel_typeAlways(ds, action) ==
  IF action.kind \in {SetModelCommand_KIND, UpdateModelCommand_KIND,
                      RequestBoundsCommand_KIND}
       /\ action.newRoot # None
  THEN [ds EXCEPT
          !.currentRoot = action.newRoot[1],
          !.lastSubmittedModelType = action.newRoot[1].type,
          !.calls = Append(@, StoreCall(action.newRoot[1]))]
  ELSE ds

\* storeNewModel with requestBounds left out of the kinds that carry a root.
storeNewModel_noRequestBounds(ds, action) ==
  IF action.kind \in {SetModelCommand_KIND, UpdateModelCommand_KIND}
       /\ action.newRoot # None
  THEN [ds EXCEPT
          !.currentRoot = action.newRoot[1],
          !.lastSubmittedModelType = action.newRoot[1].type,
          !.calls = Append(@, StoreCall(action.newRoot[1]))]
  ELSE ds

\* storeNewModel(action)
storeNewModel(ds, action) ==
  IF action.kind \in {SetModelCommand_KIND, UpdateModelCommand_KIND,
                      RequestBoundsCommand_KIND}
  THEN IF action.newRoot # None
       THEN [ds EXCEPT
               !.currentRoot = action.newRoot[1],
               !.lastSubmittedModelType =
                  IF action.kind \in {SetModelCommand_KIND, UpdateModelCommand_KIND}
                  THEN action.newRoot[1].type ELSE @,
               !.calls = Append(@, StoreCall(action.newRoot[1]))]
       ELSE ds
  ELSE ds

\* applyBounds with the size written into the position.
applyBounds_sizeAsPosition(element, newBounds) ==
  [element EXCEPT
     !.position = Some([x |-> newBounds.width, y |-> newBounds.height]),
     !.size = Some([width |-> newBounds.width, height |-> newBounds.height])]

\* applyBounds(element, newBounds)
applyBounds(element, newBounds) ==
  [element EXCEPT
     !.position = Some([x |-> newBounds.x, y |-> newBounds.y]),
     !.size = Some([width |-> newBounds.width, height |-> newBounds.height])]

\* applyAlignment(element, newAlignment)
applyAlignment(element, newAlignment) ==
  [element EXCEPT !.alignment = Some([x |-> newAlignment.x, y |-> newAlignment.y])]

\* All but the last entry of a list.
Front(s) == SubSeq(s, 1, Len(s) - 1)

\* The loop over action.bounds that ends at the first entry whose element is
\* not in the index.
RECURSIVE applyAllBounds_abortOnMiss(_, _)
applyAllBounds_abortOnMiss(root, bounds) ==
  IF bounds = <<>> THEN root
  ELSE IF \E i \in DOMAIN bounds : ~IndexHas(root, bounds[i].elementId)
       THEN applyAllBounds_abortOnMiss(root, Front(bounds))
       ELSE [applyAllBounds_abortOnMiss(root, Front(bounds))
               EXCEPT !.elems[bounds[Len(bounds)].elementId] =
                        applyBounds(@, bounds[Len(bounds)].newBounds)]

\* for (const b of action.bounds) { element = index.getById(b.elementId);
\* if (element !== undefined) applyBounds(element, b.newBounds) }
RECURSIVE applyAllBounds(_, _)
applyAllBounds(root, bounds) ==
  IF bounds = <<>> THEN root
  ELSE TheOne({IF IndexHas(r, bounds[Len(bounds)].elementId)
               THEN [r EXCEPT !.elems[bounds[Len(bounds)].elementId] =
                                applyBounds(@, bounds[Len(bounds)].newBounds)]
               ELSE r :
               r \in {applyAllBounds(root, Front(bounds))}})

\* for (const a of action.alignments) { element = index.getById(a.elementId);
\* if (element !== undefined) applyAlignment(element, a.newAlignment) }
RECURSIVE applyAllAlignments(_, _)
applyAllAlignments(root, alignments) ==
  IF alignments = <<>> THEN root
  ELSE TheOne({IF IndexHas(r, alignments[Len(alignments)].elementId)
               THEN [r EXCEPT !.elems[alignments[Len(alignments)].elementId] =
                                applyAlignment(@, alignments[Len(alignments)].newAlignment)]
               ELSE r :
               r \in {applyAllAlignments(root, Front(alignments))}})

\* The root after the bounds and, if there are any, the alignments of the
\* action were applied to its elements.
applyComputedBounds(root, action) ==
  IF action.alignments # None
  THEN TheOne({applyAllAlignments(r, action.alignments[1]) :
               r \in {applyAllBounds(root, action.bounds)}})
  ELSE applyAllBounds(root, action.bounds)

RECURSIVE dispatch(_, _, _, _)

\* The end of handleComputedBounds without the assignment to
\* lastSubmittedModelType.
submitModel_keepType(ds, root, nsl) ==
  TheOne({[ds |-> ds2, ret |-> FALSE] :
          ds2 \in {dispatch([ds EXCEPT !.currentRoot = root],
                            IF root.type = ds.lastSubmittedModelType
                            THEN UpdateModelAction(root) ELSE SetModelAction(root),
                            "", nsl)}})

\* The end of handleComputedBounds: root is this.currentRoot with the bounds
\* applied.
submitModel(ds, root, nsl) ==
  TheOne({[ds |-> [ds2 EXCEPT !.lastSubmittedModelType = root.type],
           ret |-> FALSE] :
          ds2 \in {dispatch([ds EXCEPT !.currentRoot = root],
                            IF root.type = ds.lastSubmittedModelType
                            THEN UpdateModelAction(root) ELSE SetModelAction(root),
                            "", nsl)}})

\* handleComputedBounds that applies the bounds locally whatever the
\* configuration says.
handleComputedBounds_alwaysLocal(ds, action, nsl) ==
  TheOne({submitModel(ds, root, nsl) :
          root \in {applyComputedBounds(ds.currentRoot, action)}})

\* handleComputedBounds(action): the new fields and the returned flag.
handleComputedBounds(ds, action, nsl) ==
  IF nsl
  THEN [ds |-> ds, ret |-> TRUE]
  ELSE TheOne({submitModel(ds, root, nsl) :
               root \in {applyComputedBounds(ds.currentRoot, action)}})

\* handleLocally without the case for requestBounds.
handleLocally_noRequestBoundsCase(ds, action, nsl) ==
  TheOne({CASE action.kind = ComputedBoundsAction_KIND ->
                 handleComputedBounds(ds1, action, nsl)
            [] action.kind = ExportSvgAction_KIND -> [ds |-> ds1, ret |-> FALSE]
            [] action.kind = ServerStatusAction_KIND -> [ds |-> ds1, ret |-> FALSE]
            [] OTHER -> [ds |-> ds1, ret |-> ~action.receivedFromServer] :
          ds1 \in {storeNewModel(ds, action)}})

\* handleLocally(action): the new fields and whether to forward the action.
handleLocally(ds, action, nsl) ==
  TheOne({CASE action.kind = ComputedBoundsAction_KIND ->
                 handleComputedBounds(ds1, action, nsl)
            [] action.kind = RequestBoundsCommand_KIND -> [ds |-> ds1, ret |-> FALSE]
            [] action.kind = ExportSvgAction_KIND -> [ds |-> ds1, ret |-> FALSE]
            [] action.kind = ServerStatusAction_KIND -> [ds |-> ds1, ret |-> FALSE]
            [] OTHER -> [ds |-> ds1, ret |-> ~action.receivedFromServer] :
          ds1 \in {storeNewModel(ds, action)}})

\* handle that builds the message without the client id.
handle_noClientId(ds, action, nsl) ==
  TheOne({IF r.ret
          THEN [r.ds EXCEPT !.calls = Append(@, SendCall("", action))]
          ELSE r.ds :
          r \in {handleLocally([ds EXCEPT !.calls = Append(@, HandleCall(action))],
                               action, nsl)}})

\* handle(action)
handle(ds, action, nsl) ==
  TheOne({IF r.ret
          THEN [r.ds EXCEPT !.calls = Append(@, SendCall(clientId, action))]
          ELSE r.ds :
          r \in {handleLocally([ds EXCEPT !.calls = Append(@, HandleCall(action))],
                               action, nsl)}})

\* actionDispatcher.dispatch(action, onUpdated): the handlers registered for
\* the action's kind run, then the callback is given the action.
dispatch(ds, action, callback, nsl) ==
  TheOne({IF callback = "storeNewModel" THEN storeNewModel(ds1, action) ELSE ds1 :
          ds1 \in {IF action.kind \in RegisteredKinds
                   THEN handle([ds EXCEPT !.calls = Append(@, DispatchCall(action, callback))],
                               action, nsl)
                   ELSE [ds EXCEPT !.calls = Append(@, DispatchCall(action, callback))]}})

\* The test on the client id left out.
acceptsClientId_any(cid) == TRUE

\* !object.clientId || object.clientId === this.clientId
acceptsClientId(cid) == cid \in {None, Some("")} \/ cid = Some(clientId)

\* isActionMessage(object), for an object that is not null.
isActionMessage(object) ==
  object.t # "undefined" /\ object.hasClientId /\ object.hasAction

\* messageReceived(data): the new fields, whether an exception escaped, and
\* whether the payload's action was marked.
messageReceived(ds, data, nsl) ==
  IF data.isString /\ ~data.syntaxOk
  THEN [ds |-> ds, threw |-> TRUE, marked |-> FALSE]     \* JSON.parse throws
  ELSE IF data.t = "null"
  THEN [ds |-> ds, threw |-> TRUE, marked |-> FALSE]     \* null.hasOwnProperty
  ELSE IF isActionMessage(data) /\ data.action # None
  THEN IF acceptsClientId(data.clientId)
       THEN [ds |-> dispatch(ds, [data.action[1] EXCEPT !.receivedFromServer = TRUE],
                             "storeNewModel", nsl),
             threw |-> FALSE, marked |-> TRUE]
       ELSE [ds |-> ds, threw |-> FALSE, marked |-> FALSE]
  ELSE [ds |-> [ds EXCEPT !.calls = Append(@, ErrorCall)],
        threw |-> FALSE, marked |-> FALSE]

\* ==================================================== select commands
VARIABLES
  modelRoot,     \* context.root: the children of every parent, the selected flags
  index,         \* context.root.index: the ids in the order they were added
  undoStack,     \* the command stack: executed commands
  redoStack,     \* the command stack: undone commands
  before,        \* modelRoot when the command was executed
  ops            \* the operations applied to the command so far

selectVars == <<modelRoot, index, undoStack, redoStack, before, ops>>

\* The element tree of the model: two nodes, an edge between them, an edge
\* from n2 to itself, all children of the root, and a label inside n1.
RootId == "ROOT"
RootChildren == {"n1", "n2", "e1", "e2"}
Elements == RootChildren \cup {"l1"}
parent == [e \in Elements |-> IF e = "l1" THEN "n1" ELSE RootId]
SNodes == {"n1", "n2"}
SEdges == {"e1", "e2"}
sourceId == [e \in SEdges |-> IF e = "e1" THEN "n1" ELSE "n2"]
targetId == [e \in SEdges |-> "n2"]

\* isSelectable(element): nodes and edges have the select feature, labels
\* and the root do not.
isSelectable(id) == id \in SNodes \cup SEdges

\* The ids a SelectAction may list: the elements and an id of no element.
IdPool == Elements \cup {"zz"}

\* The ids the deselectedElementsIDs of the model are drawn from.
DeselectIdPool == {"n1", "n2", "e1", "zz"}

\* index.getById(id) is defined
getById(id) == id \in Elements \cup {RootId}

\* element instanceof SChildElement
isSChildElement(id) == id \in Elements

Reverse(s) == [i \in 1..Len(s) |-> s[Len(s) + 1 - i]]

\* children.indexOf(child), 0-based (the child is in the list)
indexOf(children, child) == (CHOOSE i \in 1..Len(children) : children[i] = child) - 1

\* SParentElement.move(child, newIndex): children.splice(i, 1) followed by
\* children.splice(newIndex, 0, child)
move(children, child, newIndex) ==
  LET i == indexOf(children, child) + 1
      without == SubSeq(children, 1, i - 1) \o SubSeq(children, i + 1, Len(children))
  IN SubSeq(without, 1, newIndex) \o <<child>>
       \o SubSeq(without, newIndex + 1, Len(without))

\* The children of the element's parent, after moving the element.
moveInParent(root, element, newIndex) ==
  [root EXCEPT !.children[parent[element]] = move(@, element, newIndex)]

\* element.selected = value, if the element is selectable
setSelected(root, element, value) ==
  IF isSelectable(element)
  THEN [root EXCEPT !.selected[element] = value] ELSE root

SelectAction(selectedElementsIDs, deselectedElementsIDs) ==
  [kind |-> SelectCommand_KIND,
   selectedElementsIDs |-> selectedElementsIDs,
   deselectedElementsIDs |-> deselectedElementsIDs,
   select |-> FALSE]

SelectAllAction(select) ==
  [kind |-> SelectAllCommand_KIND,
   selectedElementsIDs |-> <<>>, deselectedElementsIDs |-> <<>>,
   select |-> select]

\* new SelectCommand(action) / new SelectAllCommand(action)
NewCommand(action) ==
  [action |-> action, selected |-> <<>>, deselected |-> <<>>,
   previousSelection |-> <<>>]

\* { element, index: element.parent.children.indexOf(element) }
ElementSelection(root, element) ==
  [element |-> element, index |-> indexOf(root.children[parent[element]], element)]

\* The selections pushed for a list of ids: the selectable child elements.
RECURSIVE collectSelections(_, _)
collectSelections(root, ids) ==
  IF ids = <<>> THEN <<>>
  ELSE (IF getById(Head(ids)) /\ isSChildElement(Head(ids)) /\ isSelectable(Head(ids))
        THEN <<ElementSelection(root, Head(ids))>> ELSE <<>>)
       \o collectSelections(root, Tail(ids))

\* model.index.all().forEach(...): the edges connected to a selected node,
\* in the order of the index.
RECURSIVE collectConnectedEdges(_, _, _)
collectConnectedEdges(root, all, selectedNodeIds) ==
  IF all = <<>> THEN <<>>
  ELSE (IF Head(all) \in SEdges
           /\ (sourceId[Head(all)] \in selectedNodeIds
               \/ targetId[Head(all)] \in selectedNodeIds)
        THEN <<ElementSelection(root, Head(all))>> ELSE <<>>)
       \o collectConnectedEdges(root, Tail(all), selectedNodeIds)

\* The loop of redo with every element moved to the front of its parent's
\* children instead.
RECURSIVE moveToEnd_toFront(_, _)
moveToEnd_toFront(root, selections) ==
  IF selections = <<>> THEN root
  ELSE moveToEnd_toFront(moveInParent(root, Head(selections).element, 0),
                         Tail(selections))

\* for (i = 0; i < selected.length; ++i) parent.move(element, childrenLength - 1)
RECURSIVE moveToEnd(_, _)
moveToEnd(root, selections) ==
  IF selections = <<>> THEN root
  ELSE LET element == Head(selections).element
           childrenLength == Len(root.children[parent[element]])
       IN moveToEnd(moveInParent(root, element, childrenLength - 1), Tail(selections))

\* forEach(selection => selection.element.selected = value)
RECURSIVE setAllSelected(_, _, _)
setAllSelected(root, selections, value) ==
  IF selections = <<>> THEN root
  ELSE setAllSelected(setSelected(root, Head(selections).element, value),
                      Tail(selections), value)

\* SelectCommand.redo with the two flag loops exchanged: selection is applied
\* before deselection.
SelectCommand_redo_selectFirst(cmd, root) ==
  LET moved == moveToEnd(root, cmd.selected)
      selectedOn == setAllSelected(moved, cmd.selected, TRUE)
  IN [cmd |-> cmd, root |-> setAllSelected(selectedOn, cmd.deselected, FALSE)]

\* SelectCommand.redo
SelectCommand_redo(cmd, root) ==
  LET moved == moveToEnd(root, cmd.selected)
      deselectedOff == setAllSelected(moved, cmd.deselected, FALSE)
  IN [cmd |-> cmd, root |-> setAllSelected(deselectedOff, cmd.selected, TRUE)]

\* SelectCommand.execute with the connected edges appended to the selected
\* list instead of prepended.
SelectCommand_execute_appendEdges(cmd, root, all) ==
  LET direct == cmd.selected \o collectSelections(root, cmd.action.selectedElementsIDs)
      selectedNodeIds ==
        {id \in SNodes : \E j \in DOMAIN cmd.action.selectedElementsIDs :
                           cmd.action.selectedElementsIDs[j] = id}
      selected == direct \o collectConnectedEdges(root, all, selectedNodeIds)
      deselected == cmd.deselected
                      \o collectSelections(root, cmd.action.deselectedElementsIDs)
  IN SelectCommand_redo(
       [cmd EXCEPT !.selected = selected, !.deselected = deselected], root)

\* SelectCommand.execute
SelectCommand_execute(cmd, root, all) ==
  LET direct == cmd.selected \o collectSelections(root, cmd.action.selectedElementsIDs)
      selectedNodeIds ==
        {cmd.action.selectedElementsIDs[i] : i \in
           {j \in DOMAIN cmd.action.selectedElementsIDs :
              LET id == cmd.action.selectedElementsIDs[j]
              IN getById(id) /\ isSChildElement(id) /\ isSelectable(id)
                 /\ id \in SNodes}}
      selected == IF selectedNodeIds # {}
                  THEN collectConnectedEdges(root, all, selectedNodeIds) \o direct
                  ELSE direct
      deselected == cmd.deselected
                      \o collectSelections(root, cmd.action.deselectedElementsIDs)
  IN SelectCommand_redo(
       [cmd EXCEPT !.selected = selected, !.deselected = deselected], root)

\* for (i = selected.length - 1; i >= 0; --i) { selected = false; move(element, index) }
RECURSIVE undoSelections(_, _)
undoSelections(root, selections) ==
  IF selections = <<>> THEN root
  ELSE LET selection == selections[Len(selections)]
           cleared == setSelected(root, selection.element, FALSE)
       IN undoSelections(moveInParent(cleared, selection.element, selection.index),
                         SubSeq(selections, 1, Len(selections) - 1))

\* SelectCommand.undo: deselected.reverse() reverses the list in place.
SelectCommand_undo(cmd, root) ==
  LET restored == undoSelections(root, cmd.selected)
      reversed == Reverse(cmd.deselected)
  IN [cmd |-> [cmd EXCEPT !.deselected = reversed],
      root |-> setAllSelected(restored, reversed, TRUE)]

\* The ids of the tree in the order selectAll visits them: the element, then
\* its children, recursively.
RECURSIVE preorder(_, _)
RECURSIVE preorderAll(_, _)
preorder(children, element) == <<element>> \o preorderAll(children, children[element])
preorderAll(children, elements) ==
  IF elements = <<>> THEN <<>>
  ELSE preorder(children, Head(elements)) \o preorderAll(children, Tail(elements))

\* SelectAllCommand.selectAll(element, newState) over the elements in the
\* order they are visited.
RECURSIVE selectAllOver(_, _, _, _)
selectAllOver(cmd, root, elements, newState) ==
  IF elements = <<>> THEN [cmd |-> cmd, root |-> root]
  ELSE LET element == Head(elements) IN
       IF isSelectable(element)
       THEN selectAllOver(
              [cmd EXCEPT !.previousSelection =
                 [i \in DOMAIN @ \cup {element} |->
                    IF i = element THEN root.selected[element] ELSE @[i]]],
              [root EXCEPT !.selected[element] = newState],
              Tail(elements), newState)
       ELSE selectAllOver(cmd, root, Tail(elements), newState)

selectAll(cmd, root, element, newState) ==
  selectAllOver(cmd, root, preorder(root.children, element), newState)

\* SelectAllCommand.execute
SelectAllCommand_execute(cmd, root) == selectAll(cmd, root, RootId, cmd.action.select)

\* SelectAllCommand.undo with every recorded element set to the opposite of
\* the action's flag.
SelectAllCommand_undo_negate(cmd, root) ==
  [cmd |-> cmd,
   root |-> [root EXCEPT !.selected =
               [e \in DOMAIN @ |->
                  IF e \in DOMAIN cmd.previousSelection /\ getById(e) /\ isSelectable(e)
                  THEN ~cmd.action.select ELSE @[e]]]]

\* SelectAllCommand.undo
SelectAllCommand_undo(cmd, root) ==
  [cmd |-> cmd,
   root |-> [root EXCEPT !.selected =
               [e \in DOMAIN @ |->
                  IF e \in DOMAIN cmd.previousSelection /\ getById(e) /\ isSelectable(e)
                  THEN cmd.previousSelection[e] ELSE @[e]]]]

\* SelectAllCommand.redo that leaves the tree as it is.
SelectAllCommand_redo_noop(cmd, root) == [cmd |-> cmd, root |-> root]

\* SelectAllCommand.redo
SelectAllCommand_redo(cmd, root) == selectAll(cmd, root, RootId, cmd.action.select)

\* command.execute / undo / redo of either command
execute(cmd, root, all) ==
  IF cmd.action.kind = SelectCommand_KIND
  THEN SelectCommand_execute(cmd, root, all)
  ELSE SelectAllCommand_execute(cmd, root)

undo(cmd, root) ==
  IF cmd.action.kind = SelectCommand_KIND
  THEN SelectCommand_undo(cmd, root) ELSE SelectAllCommand_undo(cmd, root)

redo(cmd, root) ==
  IF cmd.action.kind = SelectCommand_KIND
  THEN SelectCommand_redo(cmd, root) ELSE SelectAllCommand_redo(cmd, root)

\* ------------------------------------------------- ActionHandlerRegistry
\* registry: the handlers bound to each kind, in the order registered.
\* logger: the calls of logger.error. registrations: the constructors that
\* were passed to registerCommand, in order.
VARIABLES registry, logger, registrations

registryVars == <<registry, logger, registrations>>

\* A command constructor: its name, whether KIND is a property of its own
\* (not inherited from a superclass), and the value commandType['KIND'] reads.
CommandCtr(name, hasOwnKIND, KIND) ==
  [name |-> name, hasOwnKIND |-> hasOwnKIND, KIND |-> KIND]

\* Three commands with KIND, a subclass of SelectCommand that inherits KIND,
\* and a command class without KIND.
CommandCtrs ==
  {CommandCtr("SelectCommand", TRUE, Some(SelectCommand_KIND)),
   CommandCtr("SelectAllCommand", TRUE, Some(SelectAllCommand_KIND)),
   CommandCtr("UpdateModelCommand", TRUE, Some(UpdateModelCommand_KIND)),
   CommandCtr("MySelectCommand", FALSE, Some(SelectCommand_KIND)),
   CommandCtr("PlainCommand", FALSE, None)}

\* The kinds handlers can be registered for.
RegistryKinds == Kinds \cup {SelectAllCommand_KIND}

\* new CommandActionHandler(commandType): its handle(action) returns
\* { commands: [new commandType(action)] }.
CommandActionHandler(commandType) == [commandType |-> commandType.name]

\* register(kind, handler): the handler is added to the handlers of the kind.
register(reg, kind, handler) ==
  [reg EXCEPT !.registry[kind] = Append(@, handler)]

\* registerCommand with the KIND test left out: whatever commandType['KIND']
\* reads is registered.
registerCommand_noOwnCheck(reg, commandType) ==
  IF commandType.KIND # None
  THEN register(reg, commandType.KIND[1], CommandActionHandler(commandType))
  ELSE reg

\* ActionHandlerRegistry.registerCommand
registerCommand(reg, commandType) ==
  IF commandType.hasOwnKIND
  THEN register(reg, commandType.KIND[1], CommandActionHandler(commandType))
  ELSE [reg EXCEPT !.logger =
          Append(@, "Command " \o commandType.name
                      \o "  does not have a KIND property")]

\* ------------------------------------------------- SelectMouseListener
\* wasSelected, hasDragged: the fields of the listener. lastDown: the most
\* recent mouseDown with the left button (none yet: None). movedSince: a
\* mouseMove came after it. returned: the last event and the actions the
\* listener returned for it.
VARIABLES wasSelected, hasDragged, lastDown, movedSince, returned

mouseVars == <<wasSelected, hasDragged, lastDown, movedSince, returned>>

\* What an event hits. selectableTarget is findParentByFeature(target,
\* isSelectable): the closest element with the select feature, from the
\* target upwards (None: there is none). A button is enabled or not and its
\* type has a handler in the ButtonHandlerRegistry or not.
MouseTarget(id, selectableTarget, isRoot, isButton, enabled, hasHandler) ==
  [id |-> id, selectableTarget |-> selectableTarget, isRoot |-> isRoot,
   isButton |-> isButton, enabled |-> enabled, hasHandler |-> hasHandler]

\* Two nodes, an edge, the label of n1, the root, a decoration outside every
\* selectable element, and four buttons: b1 (on n2) and b2 (on n1) are
\* enabled and handled, b3 (on n1) is disabled, b4 (on n1) has no handler.
MouseTargets ==
  {MouseTarget(e, Some(e), FALSE, FALSE, FALSE, FALSE) : e \in {"n1", "n2", "e1"}}
  \cup {MouseTarget("l1", Some("n1"), FALSE, FALSE, FALSE, FALSE),
        MouseTarget(RootId, None, TRUE, FALSE, FALSE, FALSE),
        MouseTarget("x", None, FALSE, FALSE, FALSE, FALSE),
        MouseTarget("b1", Some("n2"), FALSE, TRUE, TRUE, TRUE),
        MouseTarget("b2", Some("n1"), FALSE, TRUE, TRUE, TRUE),
        MouseTarget("b3", Some("n1"), FALSE, TRUE, FALSE, TRUE),
        MouseTarget("b4", Some("n1"), FALSE, TRUE, TRUE, FALSE)}

\* A MouseEvent: its button (0 is the left one) and isCtrlOrCmd(event).
MouseEvents == [button : {0, 2}, ctrl : BOOLEAN]

\* What buttonHandler.buttonPressed(target) returns.
buttonPressed(target) ==
  <<[kind |-> "buttonPressed", selectedElementsIDs |-> <<target.id>>,
     deselectedElementsIDs |-> <<>>, select |-> FALSE]>>

\* target.root.index.all().filter(e => isSelectable(e) && e.selected).map(e => e.id)
selectedIds(root, all) ==
  SelectSeq(all, LAMBDA e : isSelectable(e) /\ root.selected[e])

\* The listener's fields after a call, and what the call returned.
Listener(ws, hd, actions) ==
  [wasSelected |-> ws, hasDragged |-> hd, actions |-> actions]

\* SelectMouseListener.mouseDown
mouseDown(l, root, all, target, event) ==
  IF event.button # 0 THEN Listener(l.wasSelected, l.hasDragged, <<>>)
  ELSE IF target.isButton /\ target.enabled /\ target.hasHandler
  THEN Listener(l.wasSelected, l.hasDragged, buttonPressed(target))
  ELSE IF target.selectableTarget # None \/ target.isRoot
  THEN LET deselectIds == IF ~event.ctrl THEN selectedIds(root, all) ELSE <<>>
       IN IF target.selectableTarget # None
          THEN IF ~root.selected[target.selectableTarget[1]]
               THEN Listener(FALSE, FALSE,
                             <<SelectAction(<<target.selectableTarget[1]>>, deselectIds)>>)
               ELSE IF event.ctrl
                    THEN Listener(FALSE, FALSE,
                                  <<SelectAction(<<>>, <<target.selectableTarget[1]>>)>>)
                    ELSE Listener(TRUE, FALSE, <<>>)
          ELSE Listener(l.wasSelected, FALSE, <<SelectAction(<<>>, deselectIds)>>)
  ELSE Listener(l.wasSelected, l.hasDragged, <<>>)

\* SelectMouseListener.mouseMove
mouseMove(l, target, event) == Listener(l.wasSelected, TRUE, <<>>)

\* SelectMouseListener.mouseUp
mouseUp(l, target, event) ==
  IF event.button = 0 /\ ~l.hasDragged
       /\ target.selectableTarget # None /\ l.wasSelected
  THEN Listener(l.wasSelected, l.hasDragged,
                <<SelectAction(<<target.selectableTarget[1]>>, <<>>)>>)
  ELSE Listener(l.wasSelected, FALSE, <<>>)

\* The listener after construction; nothing has been returned.
MouseIdle ==
  /\ wasSelected = FALSE
  /\ hasDragged = FALSE
  /\ lastDown = None
  /\ movedSince = FALSE
  /\ returned = [event |-> "init", actions |-> <<>>]

\* ------------------------------------------------- steps of DiagramServer
\* marked: the payload's action object now carries the property.
MkLast(op, action, data, threw, marked) ==
  [op |-> op, action |-> action, data |-> data, threw |-> threw,
   marked |-> marked]

\* The state of the part the specification does not explore.
ServerIdle ==
  /\ needsServerLayout = FALSE
  /\ currentRoot = EmptyRoot
  /\ lastSubmittedModelType = Undefined
  /\ calls = <<>>
  /\ last = MkLast("init", None, None, FALSE, FALSE)

SelectIdle ==
  /\ modelRoot = [children |-> <<>>, selected |-> <<>>]
  /\ index = <<>>
  /\ undoStack = <<>>
  /\ redoStack = <<>>
  /\ before = modelRoot
  /\ ops = <<>>

RegistryIdle ==
  /\ registry = [k \in RegistryKinds |-> <<>>]
  /\ logger = <<>>
  /\ registrations = <<>>

ServerInit ==
  /\ needsServerLayout \in BOOLEAN
  /\ currentRoot = EmptyRoot
  /\ lastSubmittedModelType = Undefined
  /\ calls = <<>>
  /\ last = MkLast("init", None, None, FALSE, FALSE)
  /\ SelectIdle
  /\ RegistryIdle
  /\ MouseIdle

\* handle is called with a locally originated action.
Handle(action) ==
  \E ds \in {handle(DS, action, needsServerLayout)} :
  /\ currentRoot' = ds.currentRoot
  /\ lastSubmittedModelType' = ds.lastSubmittedModelType
  /\ calls' = ds.calls
  /\ last' = MkLast("handle", Some(action), None, FALSE, FALSE)
  /\ UNCHANGED needsServerLayout
  /\ UNCHANGED selectVars
  /\ UNCHANGED registryVars
  /\ UNCHANGED mouseVars

\* The actions the viewer dispatches on a user gesture or programmatic call.
DispatchedActions == ModelActions \cup PlainActions

\* A locally originated action is dispatched (no callback): the dispatcher
\* passes it to this model source if it is registered for the action's kind.
Dispatch(action) ==
  \E ds \in {dispatch(DS, action, "", needsServerLayout)} :
  /\ currentRoot' = ds.currentRoot
  /\ lastSubmittedModelType' = ds.lastSubmittedModelType
  /\ calls' = ds.calls
  /\ last' = MkLast("dispatch", Some(action), None, FALSE, FALSE)
  /\ UNCHANGED needsServerLayout
  /\ UNCHANGED selectVars
  /\ UNCHANGED registryVars
  /\ UNCHANGED mouseVars

\* The transport delivers a payload.
MessageReceived(data) ==
  \E r \in {messageReceived(DS, data, needsServerLayout)} :
  /\ currentRoot' = r.ds.currentRoot
  /\ lastSubmittedModelType' = r.ds.lastSubmittedModelType
  /\ calls' = r.ds.calls
  /\ last' = MkLast("messageReceived", None, Some(data), r.threw, r.marked)
  /\ UNCHANGED needsServerLayout
  /\ UNCHANGED selectVars
  /\ UNCHANGED registryVars
  /\ UNCHANGED mouseVars

\* The transport echoes the envelope that was sent last (same clientId, same
\* action) back to this instance as JSON text.
Echo ==
  /\ \E i \in DOMAIN calls : calls[i].call = "send"
  /\ \E sent \in {CHOOSE c \in {calls[i] : i \in DOMAIN calls} :
                     c.call = "send"} :
     \E data \in {MkData(TRUE, TRUE, "object", TRUE, Some(sent.clientId),
                         TRUE, sent.action)} :
     \E r \in {messageReceived(DS, data, needsServerLayout)} :
       /\ currentRoot' = r.ds.currentRoot
       /\ lastSubmittedModelType' = r.ds.lastSubmittedModelType
       /\ calls' = r.ds.calls
       /\ last' = MkLast("echo", None, Some(data), r.threw, r.marked)
  /\ UNCHANGED needsServerLayout
  /\ UNCHANGED selectVars
  /\ UNCHANGED registryVars
  /\ UNCHANGED mouseVars

\* The action object the last payload carried, marked by messageReceived,
\* is passed to handle once more.
HandleReceived ==
  /\ last.op = "messageReceived" /\ last.marked
  /\ Handle([last.data[1].action[1] EXCEPT !.receivedFromServer = TRUE])

ServerNext ==
  \/ \E action \in Actions : Handle(action)
  \/ \E action \in DispatchedActions : Dispatch(action)
  \/ \E data \in Payloads : MessageReceived(data)
  \/ HandleReceived
  \/ Echo

vars == <<serverVars, selectVars, registryVars, mouseVars>>

SpecServer == ServerInit /\ [][ServerNext]_vars

\* ------------------------------------------- steps of the select commands
Orders(S) == {f \in [1..Cardinality(S) -> S] : \A x \in S : \E i \in DOMAIN f : f[i] = x}

\* Every order of the root's children and every combination of selected
\* flags; no command has been executed.
SelectInit ==
  /\ \E order \in Orders(RootChildren), flags \in [SNodes \cup SEdges -> BOOLEAN] :
       /\ modelRoot =
            [children |-> [p \in Elements \cup {RootId} |->
                             IF p = RootId THEN order
                             ELSE IF p = "n1" THEN <<"l1">> ELSE <<>>],
             selected |-> flags]
       /\ before = modelRoot
       /\ index = preorder(modelRoot.children, RootId)
  /\ undoStack = <<>>
  /\ redoStack = <<>>
  /\ ops = <<>>
  /\ ServerIdle
  /\ RegistryIdle
  /\ MouseIdle

SelectActions ==
  {SelectAction(sel, desel) :
     sel \in SeqsUpTo(IdPool, MaxSelected), desel \in SeqsUpTo(DeselectIdPool, MaxDeselected)}
  \cup {SelectAllAction(b) : b \in BOOLEAN}

\* The command stack executes the command made for a dispatched action (one
\* command per behaviour).
Execute ==
  /\ undoStack = <<>> /\ redoStack = <<>>
  /\ \E action \in SelectActions :
       \E r \in {execute(NewCommand(action), modelRoot, index)} :
         /\ modelRoot' = r.root
         /\ undoStack' = Append(undoStack, r.cmd)
         /\ redoStack' = <<>>
  /\ before' = modelRoot
  /\ ops' = <<"execute">>
  /\ UNCHANGED index
  /\ UNCHANGED serverVars
  /\ UNCHANGED registryVars
  /\ UNCHANGED mouseVars

\* The command stack undoes the last executed command.
Undo ==
  /\ undoStack # <<>>
  /\ Len(ops) < MaxOps
  /\ \E r \in {undo(undoStack[Len(undoStack)], modelRoot)} :
     /\ modelRoot' = r.root
     /\ undoStack' = SubSeq(undoStack, 1, Len(undoStack) - 1)
     /\ redoStack' = Append(redoStack, r.cmd)
  /\ ops' = Append(ops, "undo")
  /\ UNCHANGED <<index, before>>
  /\ UNCHANGED serverVars
  /\ UNCHANGED registryVars
  /\ UNCHANGED mouseVars

\* The command stack redoes the last undone command.
Redo ==
  /\ redoStack # <<>>
  /\ Len(ops) < MaxOps
  /\ \E r \in {redo(redoStack[Len(redoStack)], modelRoot)} :
     /\ modelRoot' = r.root
     /\ redoStack' = SubSeq(redoStack, 1, Len(redoStack) - 1)
     /\ undoStack' = Append(undoStack, r.cmd)
  /\ ops' = Append(ops, "redo")
  /\ UNCHANGED <<index, before>>
  /\ UNCHANGED serverVars
  /\ UNCHANGED registryVars
  /\ UNCHANGED mouseVars

SelectNext ==
  \/ Execute
  \/ Undo
  \/ Redo

SpecSelect == SelectInit /\ [][SelectNext]_vars

\* --------------------- steps of a SelectAllCommand on a tree that changes
\* The command stack executes the SelectAllCommand made for a dispatched
\* SelectAllAction (one command per behaviour).
SelectAllExecute ==
  /\ undoStack = <<>> /\ redoStack = <<>>
  /\ \E select \in BOOLEAN :
       \E r \in {execute(NewCommand(SelectAllAction(select)), modelRoot, index)} :
         /\ modelRoot' = r.root
         /\ undoStack' = Append(undoStack, r.cmd)
         /\ redoStack' = <<>>
  /\ before' = modelRoot
  /\ ops' = <<"execute">>
  /\ UNCHANGED index
  /\ UNCHANGED serverVars
  /\ UNCHANGED registryVars
  /\ UNCHANGED mouseVars

\* Between undo and redo the selected flag of one element is changed by
\* another writer of the tree.
FlagChange ==
  /\ ops # <<>> /\ ops[Len(ops)] = "undo"
  /\ Len(ops) < MaxOps
  /\ \E e \in SNodes \cup SEdges :
       modelRoot' = [modelRoot EXCEPT !.selected[e] = ~@]
  /\ ops' = Append(ops, "change")
  /\ UNCHANGED <<index, undoStack, redoStack, before>>
  /\ UNCHANGED serverVars
  /\ UNCHANGED registryVars
  /\ UNCHANGED mouseVars

SelectAllNext ==
  \/ SelectAllExecute
  \/ Undo
  \/ Redo
  \/ FlagChange

SpecSelectAll == SelectInit /\ [][SelectAllNext]_vars

\* ------------------------------------------- steps of the command stack
\* One tree: n1 is selected, nothing else is; no command has been executed.
StackInit ==
  /\ modelRoot =
       [children |-> [p \in Elements \cup {RootId} |->
                        IF p = RootId THEN <<"n1", "e1", "n2", "e2">>
                        ELSE IF p = "n1" THEN <<"l1">> ELSE <<>>],
        selected |-> [e \in SNodes \cup SEdges |-> e = "n1"]]
  /\ before = modelRoot
  /\ index = preorder(modelRoot.children, RootId)
  /\ undoStack = <<>>
  /\ redoStack = <<>>
  /\ ops = <<>>
  /\ ServerIdle
  /\ RegistryIdle
  /\ MouseIdle

\* The actions whose commands the stack is given.
StackActions ==
  {SelectAction(<<"n1">>, <<>>), SelectAction(<<"n2">>, <<"n1">>),
   SelectAllAction(TRUE), SelectAllAction(FALSE)}

\* execute(command) that pushes the command and keeps the redo stack.
StackExecute_keepRedo ==
  /\ Len(ops) < MaxOps
  /\ \E action \in StackActions :
       \E r \in {execute(NewCommand(action), modelRoot, index)} :
         /\ modelRoot' = r.root
         /\ undoStack' = Append(undoStack, r.cmd)
         /\ redoStack' = redoStack
  /\ before' = modelRoot
  /\ ops' = Append(ops, "execute")
  /\ UNCHANGED index
  /\ UNCHANGED serverVars
  /\ UNCHANGED registryVars
  /\ UNCHANGED mouseVars

\* execute(command) at any point of the history: runs command.execute(root),
\* replaces the root, pushes the command onto the undo stack and clears the
\* redo stack.
StackExecute ==
  /\ Len(ops) < MaxOps
  /\ \E action \in StackActions :
       \E r \in {execute(NewCommand(action), modelRoot, index)} :
         /\ modelRoot' = r.root
         /\ undoStack' = Append(undoStack, r.cmd)
         /\ redoStack' = <<>>
  /\ before' = modelRoot
  /\ ops' = Append(ops, "execute")
  /\ UNCHANGED index
  /\ UNCHANGED serverVars
  /\ UNCHANGED registryVars
  /\ UNCHANGED mouseVars

StackNext ==
  \/ StackExecute
  \/ Undo
  \/ Redo

SpecStack == StackInit /\ [][StackNext]_vars

\* --------------------- steps of DiagramServer next to a SelectCommand
\* The actions handled: a model is set, then bounds are reported for it.
LookupActions ==
  {SetModelAction(r) : r \in Roots} \cup ComputedBoundsActions

\* The ids the SelectActions list: a node, an id of no element and the id of
\* a label (an element that is not selectable).
LookupIdPool == {"n2", "zz", "l1"}

LookupSelectActions ==
  {SelectAction(sel, desel) :
     sel \in SeqsUpTo(LookupIdPool, 2), desel \in {<<>>, <<"zz">>, <<"zz", "n1">>}}

\* The command stack executes the SelectCommand made for a dispatched
\* SelectAction (one command per behaviour).
LookupExecute ==
  /\ undoStack = <<>> /\ redoStack = <<>>
  /\ \E action \in LookupSelectActions :
       \E r \in {execute(NewCommand(action), modelRoot, index)} :
         /\ modelRoot' = r.root
         /\ undoStack' = Append(undoStack, r.cmd)
         /\ redoStack' = <<>>
  /\ before' = modelRoot
  /\ ops' = <<"execute">>
  /\ UNCHANGED index
  /\ UNCHANGED serverVars
  /\ UNCHANGED registryVars
  /\ UNCHANGED mouseVars

LookupNext ==
  \/ \E action \in LookupActions : Handle(action)
  \/ LookupExecute

\* The model source is configured for local layout; the tree is that of
\* StackInit.
SpecLookup == StackInit /\ [][LookupNext]_vars

\* ---------------------------------------- steps of SelectMouseListener
\* The tree of StackInit with every combination of selected flags.
MouseInit ==
  /\ \E flags \in [SNodes \cup SEdges -> BOOLEAN] :
       modelRoot =
         [children |-> [p \in Elements \cup {RootId} |->
                          IF p = RootId THEN <<"n1", "e1", "n2", "e2">>
                          ELSE IF p = "n1" THEN <<"l1">> ELSE <<>>],
          selected |-> flags]
  /\ before = modelRoot
  /\ index = preorder(modelRoot.children, RootId)
  /\ undoStack = <<>>
  /\ redoStack = <<>>
  /\ ops = <<>>
  /\ ServerIdle
  /\ RegistryIdle
  /\ MouseIdle

\* The listener is given a mouse event and the element it hit.
MouseDown ==
  \E target \in MouseTargets, event \in MouseEvents :
    \E l \in {mouseDown(Listener(wasSelected, hasDragged, <<>>),
                        modelRoot, index, target, event)} :
      /\ wasSelected' = l.wasSelected
      /\ hasDragged' = l.hasDragged
      /\ returned' = [event |-> "mouseDown", actions |-> l.actions]
      /\ lastDown' =
           IF event.button = 0
           THEN Some([target |-> target, ctrl |-> event.ctrl,
                      selected |-> /\ target.selectableTarget # None
                                   /\ modelRoot.selected[target.selectableTarget[1]]])
           ELSE lastDown
      /\ movedSince' = IF event.button = 0 THEN FALSE ELSE movedSince
      /\ UNCHANGED serverVars
      /\ UNCHANGED selectVars
      /\ UNCHANGED registryVars

MouseMove ==
  \E target \in MouseTargets, event \in MouseEvents :
    \E l \in {mouseMove(Listener(wasSelected, hasDragged, <<>>), target, event)} :
      /\ wasSelected' = l.wasSelected
      /\ hasDragged' = l.hasDragged
      /\ returned' = [event |-> "mouseMove", actions |-> l.actions]
      /\ movedSince' = TRUE
      /\ UNCHANGED lastDown
      /\ UNCHANGED serverVars
      /\ UNCHANGED selectVars
      /\ UNCHANGED registryVars

MouseUp ==
  \E target \in MouseTargets, event \in MouseEvents :
    \E l \in {mouseUp(Listener(wasSelected, hasDragged, <<>>), target, event)} :
      /\ wasSelected' = l.wasSelected
      /\ hasDragged' = l.hasDragged
      /\ returned' = [event |-> "mouseUp", actions |-> l.actions]
      /\ UNCHANGED <<lastDown, movedSince>>
      /\ UNCHANGED serverVars
      /\ UNCHANGED selectVars
      /\ UNCHANGED registryVars

MouseNext ==
  \/ MouseDown
  \/ MouseMove
  \/ MouseUp

SpecMouse == MouseInit /\ [][MouseNext]_vars

\* -------------------------------------- steps of ActionHandlerRegistry
\* The registry after its constructor ran with no command constructors.
RegistryInit ==
  /\ RegistryIdle
  /\ MouseIdle
  /\ ServerIdle
  /\ SelectIdle

\* registerCommand is called with a command constructor.
RegisterCommand ==
  /\ Len(registrations) < MaxRegistrations
  /\ \E commandType \in CommandCtrs :
       \E reg \in {registerCommand([registry |-> registry, logger |-> logger],
                                   commandType)} :
         /\ registry' = reg.registry
         /\ logger' = reg.logger
         /\ registrations' = Append(registrations, commandType)
  /\ UNCHANGED serverVars
  /\ UNCHANGED selectVars
  /\ UNCHANGED mouseVars

RegistryNext == RegisterCommand

SpecRegistry == RegistryInit /\ [][RegistryNext]_vars

\* ============================================= properties of DiagramServer
CallsOf(cs, name) == SelectSeq(cs, LAMBDA c : c.call = name)

\* The dispatch calls handleComputedBounds makes (no callback).
LocalDispatches(cs) ==
  SelectSeq(cs, LAMBDA c : c.call = "dispatch" /\ c.callback = "")

\* Would handle forward this action if it were locally originated?
ForwardsWhenLocal(a) ==
  handleLocally(DS, [a EXCEPT !.receivedFromServer = FALSE], needsServerLayout).ret

\* The payload is a well-formed envelope: an object (or valid JSON text of
\* one) with both properties and a non-empty action.
IsEnvelope(data) ==
  /\ data.isString => data.syntaxOk
  /\ data.t = "object"
  /\ data.hasClientId /\ data.hasAction /\ data.action # None

\* C1: echo suppression. A handled action that carries the
\* received-from-authority mark never causes sendMessage, whatever its kind;
\* an unmarked action of a kind that is forwarded when local is sent.
C1_EchoSuppression ==
  \A i \in DOMAIN calls : calls[i].call = "handle" =>
    LET a == calls[i].action[1] IN
    /\ a.receivedFromServer => CallsOf(calls, "send") = <<>>
    /\ (~a.receivedFromServer /\ ForwardsWhenLocal(a)) =>
          CallsOf(calls, "send") = <<SendCall(clientId, a)>>

\* C2: tenant isolation. A well-formed envelope with another client's
\* non-empty id is discarded silently: the action is not marked, nothing is
\* dispatched, handled, stored, sent or logged, and the fields are unchanged.
C2_TenantIsolation ==
  [][(/\ last'.op = "messageReceived"
      /\ IsEnvelope(last'.data[1])
      /\ last'.data[1].clientId \notin {None, Some(""), Some(clientId)})
     => /\ ~last'.marked /\ ~last'.threw
        /\ calls' = <<>>
        /\ currentRoot' = currentRoot
        /\ lastSubmittedModelType' = lastSubmittedModelType]_vars

C2_Witness ==
  /\ last.op = "messageReceived"
  /\ IsEnvelope(last.data[1])
  /\ last.data[1].clientId = Some(otherClientId)
  /\ last.data[1].action[1].kind = SetModelCommand_KIND
  /\ last.data[1].action[1].newRoot # None
  /\ currentRoot # EmptyRoot
  /\ last.data[1].action[1].newRoot # Some(currentRoot)

\* The payload carries an action: an object (or valid JSON text of one) with
\* a non-empty action property.
CarriesAction(data) ==
  /\ data.isString => data.syntaxOk
  /\ data.t = "object"
  /\ data.hasAction /\ data.action # None

\* The marked action was dispatched exactly once, with storeNewModel as the
\* callback.
MarkedAndDispatchedOnce ==
  /\ last.marked
  /\ LET a == [last.data[1].action[1] EXCEPT !.receivedFromServer = TRUE]
     IN SelectSeq(calls, LAMBDA c : c.call = "dispatch" /\ c.callback = "storeNewModel")
          = <<DispatchCall(a, "storeNewModel")>>

\* C3 as stated: an envelope carrying an action whose clientId is missing
\* altogether, empty or undefined, or the own id, is marked and dispatched
\* exactly once with storeNewModel as the callback.
C3_AcceptanceAsStated ==
  (/\ last.op = "messageReceived"
   /\ CarriesAction(last.data[1])
   /\ \/ ~last.data[1].hasClientId
      \/ last.data[1].clientId \in {None, Some(""), Some(clientId)})
  => MarkedAndDispatchedOnce

\* C4: a malformed payload (not a well-formed envelope) makes messageReceived
\* log an error, dispatch nothing, leave the fields unchanged and return
\* normally.
C4_MalformedIsLogged ==
  [][(last'.op = "messageReceived" /\ ~IsEnvelope(last'.data[1]))
     => /\ ~last'.threw
        /\ calls' = <<ErrorCall>>
        /\ currentRoot' = currentRoot
        /\ lastSubmittedModelType' = lastSubmittedModelType]_vars

\* The bounds of the last entry for the element, if any.
RECURSIVE LastBoundsFor(_, _)
LastBoundsFor(bounds, id) ==
  IF bounds = <<>> THEN None
  ELSE IF bounds[Len(bounds)].elementId = id
       THEN Some(bounds[Len(bounds)].newBounds)
       ELSE LastBoundsFor(SubSeq(bounds, 1, Len(bounds) - 1), id)

\* C5: bounds feedback loop. With needsServerLayout = false a handled
\* computedBounds action gives every element of currentRoot named by a bounds
\* entry the position and size of the (last) entry for it, dispatches locally
\* exactly one action carrying the root (updateModel if the root's type is
\* the last submitted type, setModel otherwise), and sends nothing.
C5_BoundsFeedback ==
  [][\A i \in DOMAIN calls' :
       (/\ calls'[i].call = "handle"
        /\ calls'[i].action[1].kind = ComputedBoundsAction_KIND
        /\ ~needsServerLayout)
       => LET a == calls'[i].action[1]
              local == LocalDispatches(calls')
          IN /\ \A id \in DOMAIN currentRoot.elems :
                  LET nb == LastBoundsFor(a.bounds, id) IN
                  nb # None =>
                    /\ currentRoot'.elems[id].position
                         = Some([x |-> nb[1].x, y |-> nb[1].y])
                    /\ currentRoot'.elems[id].size
                         = Some([width |-> nb[1].width, height |-> nb[1].height])
             /\ Len(local) = 1
             /\ local[1].action[1].kind =
                  IF currentRoot.type = lastSubmittedModelType
                  THEN UpdateModelCommand_KIND ELSE SetModelCommand_KIND
             /\ local[1].action[1].newRoot = Some(currentRoot')
             /\ CallsOf(calls', "send") = <<>>]_vars

C5_Witness ==
  /\ ~needsServerLayout
  /\ last.op = "handle"
  /\ last.action[1].kind = ComputedBoundsAction_KIND
  /\ last.action[1].bounds =
       <<[elementId |-> "n1",
          newBounds |-> [x |-> 10, y |-> 20, width |-> 5, height |-> 5]]>>
  /\ "n1" \in DOMAIN currentRoot.elems
  /\ currentRoot.elems["n1"].position = Some([x |-> 10, y |-> 20])
  /\ currentRoot.elems["n1"].size = Some([width |-> 5, height |-> 5])
  /\ Len(LocalDispatches(calls)) = 1
  /\ LocalDispatches(calls)[1].action[1].kind = UpdateModelCommand_KIND

\* C6: with needsServerLayout = true a handled computedBounds action is sent
\* unchanged, once, and has no local effect: currentRoot and
\* lastSubmittedModelType keep their values and nothing is dispatched.
C6_ComputedBoundsForwarded ==
  [][\A i \in DOMAIN calls' :
       (/\ calls'[i].call = "handle"
        /\ calls'[i].action[1].kind = ComputedBoundsAction_KIND
        /\ needsServerLayout)
       => /\ CallsOf(calls', "send") = <<SendCall(clientId, calls'[i].action[1])>>
          /\ LocalDispatches(calls') = <<>>
          /\ CallsOf(calls', "store") = <<>>
          /\ currentRoot' = currentRoot
          /\ lastSubmittedModelType' = lastSubmittedModelType]_vars

C6_Witness ==
  /\ needsServerLayout
  /\ last.op = "handle"
  /\ last.action[1].kind = ComputedBoundsAction_KIND
  /\ Len(last.action[1].bounds) > 0
  /\ last.action[1].bounds[1].elementId \in DOMAIN currentRoot.elems
  /\ CallsOf(calls, "send") = <<SendCall(clientId, last.action[1])>>

\* C7: a handled action of kind requestBounds, export or serverStatus is
\* never sent, marked or not, whatever needsServerLayout is.
C7_NeverForwarded ==
  \A i \in DOMAIN calls :
    (/\ calls[i].call = "handle"
     /\ calls[i].action[1].kind \in
          {RequestBoundsCommand_KIND, ExportSvgAction_KIND, ServerStatusAction_KIND})
    => CallsOf(calls, "send") = <<>>

C7_Witness ==
  /\ last.op = "handle"
  /\ last.action[1].kind = RequestBoundsCommand_KIND
  /\ ~last.action[1].receivedFromServer
  /\ last.action[1].newRoot # None
  /\ CallsOf(calls, "send") = <<>>

\* C8: when handle is given a setModel, updateModel or requestBounds action
\* that carries a root, storage.store is called with that root first (before
\* any sendMessage) and currentRoot is that root, also when the action is
\* then forwarded.
C8_StoredOnHandle ==
  \A i \in DOMAIN calls :
    (/\ calls[i].call = "handle"
     /\ calls[i].action[1].kind \in
          {SetModelCommand_KIND, UpdateModelCommand_KIND, RequestBoundsCommand_KIND}
     /\ calls[i].action[1].newRoot # None)
    => /\ i + 1 \in DOMAIN calls
       /\ calls[i + 1] = StoreCall(calls[i].action[1].newRoot[1])
       /\ currentRoot = calls[i].action[1].newRoot[1]
       /\ \A j \in DOMAIN calls : calls[j].call = "send" => j > i + 1

C8_Witness ==
  /\ last.op = "handle"
  /\ last.action[1].kind = RequestBoundsCommand_KIND
  /\ last.action[1].newRoot # None
  /\ CallsOf(calls, "store") = <<StoreCall(last.action[1].newRoot[1])>>
  /\ currentRoot = last.action[1].newRoot[1]

\* C15: a locally originated SelectAction is forwarded when a DiagramServer
\* is present: dispatching it makes exactly one sendMessage, carrying it.
C15_SelectForwarded ==
  (/\ last.op = "dispatch"
   /\ last.action[1].kind = SelectCommand_KIND
   /\ ~last.action[1].receivedFromServer)
  => CallsOf(calls, "send") = <<SendCall(clientId, last.action[1])>>

\* C20: no feedback loop. When the transport echoes a sent envelope back to
\* this instance, receiving it sends nothing: the action is not sent a second
\* time, whatever its kind and whatever needsServerLayout is.
C20_NoFeedbackLoop ==
  last.op = "echo" => (last.marked /\ CallsOf(calls, "send") = <<>>)

\* C21: the received-from-authority mark lasts one round trip. An action
\* instance that messageReceived accepted and finished dispatching, handled
\* again later as a local action of a kind that is forwarded, is sent; and no
\* envelope given to sendMessage holds an action that carries the mark.
C21_MarkLastsOneRoundTrip ==
  /\ (/\ last.op = "handle"
      /\ last.action[1].receivedFromServer
      /\ ForwardsWhenLocal(last.action[1]))
     => CallsOf(calls, "send") # <<>>
  /\ \A i \in DOMAIN calls :
       calls[i].call = "send" => ~calls[i].action[1].receivedFromServer

\* The action a step is about: the one handled or dispatched, or the one of
\* the accepted envelope.
StepAction(l) ==
  IF l.op \in {"handle", "dispatch"} THEN l.action
  ELSE IF l.op \in {"messageReceived", "echo"} /\ l.marked THEN l.data[1].action
  ELSE None

\* C23: lastSubmittedModelType changes only when a setModel or updateModel
\* action that carries a root is stored (to that root's type) or a
\* computedBounds action is applied locally (to currentRoot's type). A
\* handled requestBounds action that carries a root replaces and stores
\* currentRoot and leaves lastSubmittedModelType; a handled action of any
\* other kind, or one of these kinds without a root, leaves both.
C23_SubmittedTypeFrame ==
  [][/\ lastSubmittedModelType' # lastSubmittedModelType
        => /\ StepAction(last') # None
           /\ LET a == StepAction(last')[1] IN
              \/ /\ a.kind \in {SetModelCommand_KIND, UpdateModelCommand_KIND}
                 /\ a.newRoot # None
                 /\ StoreCall(a.newRoot[1]) \in {calls'[i] : i \in DOMAIN calls'}
                 /\ lastSubmittedModelType' = a.newRoot[1].type
              \/ /\ a.kind = ComputedBoundsAction_KIND
                 /\ ~needsServerLayout
                 /\ lastSubmittedModelType' = currentRoot.type
                 /\ currentRoot'.type = currentRoot.type
     /\ \A i \in DOMAIN calls' : calls'[i].call = "handle" =>
          LET a == calls'[i].action[1] IN
          /\ (a.kind = RequestBoundsCommand_KIND /\ a.newRoot # None)
             => /\ currentRoot' = a.newRoot[1]
                /\ StoreCall(a.newRoot[1]) \in {calls'[j] : j \in DOMAIN calls'}
                /\ lastSubmittedModelType' = lastSubmittedModelType
          /\ (\/ a.kind \notin {SetModelCommand_KIND, UpdateModelCommand_KIND,
                                RequestBoundsCommand_KIND, ComputedBoundsAction_KIND}
              \/ /\ a.kind # ComputedBoundsAction_KIND
                 /\ a.newRoot = None)
             => /\ currentRoot' = currentRoot
                /\ lastSubmittedModelType' = lastSubmittedModelType]_vars

C23_Witness ==
  /\ last.op = "handle"
  /\ last.action[1].kind = RequestBoundsCommand_KIND
  /\ last.action[1].newRoot # None
  /\ last.action[1].newRoot[1].type = "tree"
  /\ currentRoot = last.action[1].newRoot[1]
  /\ lastSubmittedModelType = "graph"

\* The kind of the action a locally applied computedBounds dispatched.
DispatchedKind(cs) == LocalDispatches(cs)[1].action[1].kind

\* C24: with needsServerLayout = false, a handled computedBounds action
\* dispatches setModel when no setModel or updateModel was stored and no
\* bounds were applied before, and when it follows a requestBounds action
\* whose root has another type than the last submitted one; it dispatches
\* updateModel when it directly follows a locally applied computedBounds.
C24_SetOrUpdate ==
  [][(/\ ~needsServerLayout
      /\ \E i \in DOMAIN calls' :
           /\ calls'[i].call = "handle"
           /\ calls'[i].action[1].kind = ComputedBoundsAction_KIND)
     => /\ Len(LocalDispatches(calls')) = 1
        /\ lastSubmittedModelType = Undefined
           => DispatchedKind(calls') = SetModelCommand_KIND
        /\ (/\ StepAction(last) # None
            /\ StepAction(last)[1].kind = RequestBoundsCommand_KIND
            /\ StepAction(last)[1].newRoot # None
            /\ StepAction(last)[1].newRoot[1].type # lastSubmittedModelType)
           => DispatchedKind(calls') = SetModelCommand_KIND
        /\ (/\ StepAction(last) # None
            /\ StepAction(last)[1].kind = ComputedBoundsAction_KIND)
           => DispatchedKind(calls') = UpdateModelCommand_KIND]_vars

\* updateModel was dispatched for the root the model source was constructed
\* with: its type can only have been submitted by an earlier computedBounds.
C24_Witness ==
  /\ ~needsServerLayout
  /\ last.op = "handle"
  /\ last.action[1].kind = ComputedBoundsAction_KIND
  /\ currentRoot.type = "NONE"
  /\ Len(LocalDispatches(calls)) = 1
  /\ DispatchedKind(calls) = UpdateModelCommand_KIND

\* C25: every call of handle calls sendMessage at most once, and every
\* envelope given to sendMessage holds this instance's clientId and the very
\* action that was handled.
C25_OneSendPerHandle ==
  /\ Len(CallsOf(calls, "send")) <= Len(CallsOf(calls, "handle"))
  /\ Len(CallsOf(calls, "handle")) <= 1
  /\ \A i \in DOMAIN calls : calls[i].call = "send" =>
       /\ calls[i].clientId = clientId
       /\ \E j \in 1..(i - 1) :
            /\ calls[j].call = "handle"
            /\ calls[j].action = calls[i].action

C25_Witness ==
  /\ last.op = "handle"
  /\ last.action[1].kind = UpdateModelCommand_KIND
  /\ last.action[1].newRoot # None
  /\ CallsOf(calls, "send") = <<SendCall(clientId, last.action[1])>>

\* ========================================= properties of the select commands
\* The command the last operation was applied to.
LastCommand ==
  IF ops[Len(ops)] = "undo" THEN redoStack[Len(redoStack)]
  ELSE undoStack[Len(undoStack)]

\* C9: round trip of SelectCommand. After execute followed by undo the tree
\* is the tree before execute: the same child order in every parent and the
\* same selected flag on every element.
C9_SelectRoundTrip ==
  (/\ ops = <<"execute", "undo">>
   /\ LastCommand.action.kind = SelectCommand_KIND)
  => modelRoot = before

\* C10: select-all and undo. After SelectAllCommand.execute followed by undo
\* every element's selected flag is its flag before execute, for both values
\* of the action's flag; it is again after a further redo and undo.
C10_SelectAllUndo ==
  (/\ ops \in {<<"execute", "undo">>, <<"execute", "undo", "redo", "undo">>}
   /\ LastCommand.action.kind = SelectAllCommand_KIND)
  => modelRoot.selected = before.selected

C10_Witness ==
  /\ ops = <<"execute", "undo", "redo", "undo">>
  /\ LastCommand.action.kind = SelectAllCommand_KIND
  /\ LastCommand.action.select
  /\ \E e \in DOMAIN before.selected : before.selected[e]
  /\ \E e \in DOMAIN before.selected : ~before.selected[e]
  /\ modelRoot.selected = before.selected

\* C11: redo reproduces execute. For both commands the tree after execute,
\* undo, redo (and after every later redo of the command) has the child
\* order of every parent and the selected flag of every element that execute
\* alone produces from the tree before it.
C11_RedoReproducesExecute ==
  (ops # <<>> /\ ops[Len(ops)] = "redo")
  => modelRoot = execute(NewCommand(LastCommand.action), before, index).root

C11_Witness ==
  /\ ops = <<"execute", "undo", "redo">>
  /\ LastCommand.action.kind = SelectCommand_KIND
  /\ LastCommand.action.selectedElementsIDs = <<"n2", "e1">>
  /\ LastCommand.action.deselectedElementsIDs = <<"n1">>
  /\ before.children[RootId] = <<"n2", "e1", "n1", "e2">>
  /\ before.selected["n1"] /\ ~before.selected["n2"]
  /\ modelRoot.children[RootId] = <<"n1", "e2", "n2", "e1">>
  /\ ~modelRoot.selected["n1"] /\ modelRoot.selected["n2"]

\* The nodes among the ids of the action's selectedElementsIDs.
SelectedNodesOf(action) ==
  {id \in SNodes : \E j \in DOMAIN action.selectedElementsIDs :
                     action.selectedElementsIDs[j] = id}

\* The edges whose source or target is one of the nodes.
EdgesConnectedTo(nodes) ==
  {e \in SEdges : sourceId[e] \in nodes \/ targetId[e] \in nodes}

\* C12: selection capture order. After SelectCommand.execute the captured
\* selected list is every edge whose source or target is a selected node
\* (each once), followed by the selectable elements named by
\* selectedElementsIDs in the order of that list, each with its sibling index
\* in the tree before execute; so every connected edge occurs before every
\* selected node, and an edge connected to no selected node is captured only
\* if it is listed.
C12_CaptureOrder ==
  (ops # <<>> /\ LastCommand.action.kind = SelectCommand_KIND)
  => LET sel == LastCommand.selected
         ids == LastCommand.action.selectedElementsIDs
         edges == EdgesConnectedTo(SelectedNodesOf(LastCommand.action))
         k == Cardinality(edges)
         direct == SelectSeq(ids, LAMBDA id : id \in SNodes \cup SEdges)
     IN /\ Len(sel) = k + Len(direct)
        /\ {sel[i].element : i \in 1..k} = edges
        /\ \A i \in 1..Len(direct) : sel[k + i].element = direct[i]
        /\ \A i \in DOMAIN sel :
             sel[i].index
               = indexOf(before.children[parent[sel[i].element]], sel[i].element)
        /\ \A i \in DOMAIN sel : \A e \in edges :
             sel[i].element \in SNodes => \E j \in 1..(i - 1) : sel[j].element = e
        /\ \A i \in DOMAIN sel :
             sel[i].element \in SEdges \ edges
               => \E j \in DOMAIN ids : ids[j] = sel[i].element

C12_Witness ==
  /\ ops = <<"execute">>
  /\ LastCommand.action.kind = SelectCommand_KIND
  /\ LastCommand.action.selectedElementsIDs = <<"n1">>
  /\ before.children[RootId] = <<"n1", "e2", "e1", "n2">>
  /\ LastCommand.selected
       = <<[element |-> "e1", index |-> 2], [element |-> "n1", index |-> 0]>>

\* The position of the last entry for the element in the captured list.
LastPos(sel, e) ==
  CHOOSE i \in DOMAIN sel :
    sel[i].element = e /\ \A j \in DOMAIN sel : j > i => sel[j].element # e

C17_UndoRestoresPositions ==
  (/\ ops = <<"execute", "undo">>
   /\ LastCommand.action.kind = SelectCommand_KIND)
  => \A i \in DOMAIN LastCommand.selected :
       LET s == LastCommand.selected[i] IN
       indexOf(modelRoot.children[parent[s.element]], s.element) = s.index

\* C18: an element named by both selectedElementsIDs and
\* deselectedElementsIDs of a SelectAction is selected after
\* SelectCommand.execute and after every later redo.
C18_SelectWins ==
  (/\ ops # <<>>
   /\ ops[Len(ops)] \in {"execute", "redo"}
   /\ LastCommand.action.kind = SelectCommand_KIND)
  => \A id \in DOMAIN modelRoot.selected :
       (/\ \E j \in DOMAIN LastCommand.action.selectedElementsIDs :
             LastCommand.action.selectedElementsIDs[j] = id
        /\ \E j \in DOMAIN LastCommand.action.deselectedElementsIDs :
             LastCommand.action.deselectedElementsIDs[j] = id)
       => modelRoot.selected[id]

C18_Witness ==
  /\ ops = <<"execute", "undo", "redo">>
  /\ LastCommand.action.kind = SelectCommand_KIND
  /\ LastCommand.action.selectedElementsIDs = <<"e1", "n1">>
  /\ LastCommand.action.deselectedElementsIDs = <<"n1">>
  /\ ~before.selected["n1"]
  /\ modelRoot.selected["n1"]

\* C22: SelectAllCommand records the flags once. After a redo the recorded
\* previous flags are still those that held before the first execute, also
\* when a flag changed between undo and redo; so an undo after the redo
\* restores the flags that held before the first execute.
C22_RecordedOnce ==
  (/\ ops # <<>>
   /\ ops[1] = "execute"
   /\ ops[Len(ops)] # "change")
  => /\ LastCommand.action.kind = SelectAllCommand_KIND
        => LastCommand.previousSelection = before.selected
     /\ (/\ LastCommand.action.kind = SelectAllCommand_KIND
         /\ ops[Len(ops)] = "undo"
         /\ \E i \in DOMAIN ops : ops[i] = "redo")
        => modelRoot.selected = before.selected

\* ============================================ properties of index lookups
\* The computedBounds action without the entries (bounds and alignments)
\* whose elementId is not in the root.
WithoutMisses(root, action) ==
  [action EXCEPT
     !.bounds = SelectSeq(@, LAMBDA b : b.elementId \in DOMAIN root.elems),
     !.alignments =
        IF @ = None THEN None
        ELSE Some(SelectSeq(@[1], LAMBDA a : a.elementId \in DOMAIN root.elems))]

\* The SelectAction without the ids of no element and of elements that are
\* not selectable.
WithoutUnselectable(action) ==
  [action EXCEPT
     !.selectedElementsIDs = SelectSeq(@, LAMBDA id : id \in SNodes \cup SEdges),
     !.deselectedElementsIDs = SelectSeq(@, LAMBDA id : id \in SNodes \cup SEdges)]

\* C19: an index lookup miss is skipped and the rest of the batch is applied.
\* A computedBounds action handled locally leaves currentRoot and
\* lastSubmittedModelType, and dispatches the same single setModel or
\* updateModel, as the action without the entries for elements that are not
\* in currentRoot does; it adds no element. SelectCommand.execute captures
\* the same lists and yields the same tree as for the action without the ids
\* that name no element or an element that is not selectable.
C19_LookupMissSkipped ==
  /\ [][(/\ UNCHANGED selectVars
         /\ last'.op = "handle"
         /\ last'.action[1].kind = ComputedBoundsAction_KIND
         /\ ~needsServerLayout)
        => LET a == last'.action[1]
               ds == handle(DS, WithoutMisses(currentRoot, a), needsServerLayout)
           IN /\ ~last'.threw
              /\ currentRoot' = ds.currentRoot
              /\ DOMAIN currentRoot'.elems = DOMAIN currentRoot.elems
              /\ lastSubmittedModelType' = ds.lastSubmittedModelType
              /\ Len(LocalDispatches(calls')) = 1
              /\ LocalDispatches(calls') = LocalDispatches(ds.calls)
              /\ CallsOf(calls', "send") = <<>>]_vars
  /\ []((ops = <<"execute">> /\ LastCommand.action.kind = SelectCommand_KIND)
        => LET r == execute(NewCommand(WithoutUnselectable(LastCommand.action)),
                            before, index)
           IN /\ modelRoot = r.root
              /\ LastCommand.selected = r.cmd.selected
              /\ LastCommand.deselected = r.cmd.deselected)

C19_Witness ==
  /\ last.op = "handle"
  /\ last.action[1].kind = ComputedBoundsAction_KIND
  /\ currentRoot.type = "tree"
  /\ Len(last.action[1].bounds) = 2
  /\ last.action[1].bounds[1].elementId = "n2"
  /\ last.action[1].bounds[2].elementId = "n1"
  /\ currentRoot.elems["n1"].position
       = Some([x |-> last.action[1].bounds[2].newBounds.x,
               y |-> last.action[1].bounds[2].newBounds.y])
  /\ Len(LocalDispatches(calls)) = 1
  /\ ops = <<"execute">>
  /\ LastCommand.action.selectedElementsIDs = <<"zz", "n2">>
  /\ LastCommand.action.deselectedElementsIDs = <<"zz", "n1">>
  /\ modelRoot.selected["n2"] /\ ~modelRoot.selected["n1"]
  /\ modelRoot.children[RootId] = <<"n1", "e1", "e2", "n2">>
  /\ before.selected["n1"]

\* ========================================= properties of the command stack
\* C16: history discipline. Every execute pushes its command onto the undo
\* stack and leaves the redo stack empty, so no redo is possible after it;
\* after execute(a), execute(b), undo() the undo stack is [a] and the redo
\* stack holds exactly the command of b.
C16_HistoryDiscipline ==
  /\ [][/\ ops' = Append(ops, "execute")
           => /\ redoStack' = <<>>
              /\ Len(undoStack') = Len(undoStack) + 1
              /\ SubSeq(undoStack', 1, Len(undoStack)) = undoStack
        /\ (ops = <<"execute", "execute">> /\ ops' = Append(ops, "undo"))
           => /\ undoStack' = <<undoStack[1]>>
              /\ Len(redoStack') = 1
              /\ redoStack'[1].action = undoStack[2].action]_vars
  /\ []((ops # <<>> /\ ops[Len(ops)] = "execute") => ~ENABLED Redo)

C16_Witness ==
  /\ ops = <<"execute", "execute", "undo", "execute">>
  /\ redoStack = <<>>
  /\ Len(undoStack) = 2
  /\ undoStack[1].action = SelectAction(<<"n1">>, <<>>)
  /\ undoStack[2].action = SelectAllAction(FALSE)

\* ====================================== properties of ActionHandlerRegistry
\* The handlers of the commands with a KIND of their own among the
\* constructors, per kind, in order.
RECURSIVE HandlersOf(_, _)
HandlersOf(ctrs, kind) ==
  IF ctrs = <<>> THEN <<>>
  ELSE (IF Head(ctrs).hasOwnKIND /\ Head(ctrs).KIND = Some(kind)
        THEN <<[commandType |-> Head(ctrs).name]>> ELSE <<>>)
       \o HandlersOf(Tail(ctrs), kind)

\* C14: registerCommand. Given a constructor without a KIND property of its
\* own it logs one error and leaves every kind's handlers as they are; given
\* one with KIND it adds, under that kind only, a handler that instantiates
\* the command, and logs nothing. It returns normally in both cases, so at
\* any time the handlers of each kind are exactly those of the commands with
\* KIND registered so far, whatever was registered in between.
C14_RegisterCommand ==
  /\ \A kind \in RegistryKinds : registry[kind] = HandlersOf(registrations, kind)
  /\ Len(logger)
       = Cardinality({i \in DOMAIN registrations : ~registrations[i].hasOwnKIND})

C14_Witness ==
  /\ Len(registrations) = 3
  /\ registrations[1].name = "SelectCommand"
  /\ registrations[2].name = "MySelectCommand"
  /\ registrations[3].name = "SelectAllCommand"
  /\ registry[SelectCommand_KIND] = <<[commandType |-> "SelectCommand"]>>
  /\ registry[SelectAllCommand_KIND] = <<[commandType |-> "SelectAllCommand"]>>
  /\ Len(logger) = 1

\* ======================================== properties of SelectMouseListener
\* C26: click protocol. mouseUp returns a SelectAction only when the most
\* recent mouseDown with the left button hit a selectable target that was
\* selected (and not a button whose handler took the press), without
\* ctrl/cmd, and no mouseMove came after that mouseDown.
C26_ClickProtocol ==
  (/\ returned.event = "mouseUp"
   /\ \E i \in DOMAIN returned.actions : returned.actions[i].kind = SelectCommand_KIND)
  => /\ lastDown # None
     /\ ~movedSince
     /\ ~lastDown[1].ctrl
     /\ ~(/\ lastDown[1].target.isButton
          /\ lastDown[1].target.enabled
          /\ lastDown[1].target.hasHandler)
     /\ lastDown[1].target.selectableTarget # None
     /\ lastDown[1].selected

====
